---- MODULE Spec2Model ----
(***************************************************************************)
(* The lockup program (examples/lockup): the whitelist registry (Lockup),  *)
(* one Vesting account with its token vault, and the instructions          *)
(* create_vesting, withdraw, whitelist_withdraw, whitelist_deposit and     *)
(* available_for_withdrawal.                                               *)
(*                                                                         *)
(* An instruction is one atomic step.  An instruction that returns an      *)
(* error (or panics) leaves every account as it was: the runtime discards  *)
(* the writes of a failed instruction, those of the relayed program        *)
(* included.  What the instruction saw and what it returned are kept in    *)
(* `last` until the caller has taken the result (Return); the next         *)
(* instruction starts after that.                                          *)
(*                                                                         *)
(* The account constraints of the instruction contexts (signers, has_one,  *)
(* seeds, the token program id) are checked by the framework before the    *)
(* handler runs and are taken to hold; CreateVesting::accounts, which the  *)
(* program checks itself, is modelled.                                     *)
(***************************************************************************)
EXTENDS Integers, Naturals, Sequences, FiniteSets, Bags, TLC

(***************************************************************************)
(* Bounds of the model.                                                    *)
(***************************************************************************)
\* the largest value of the unsigned word that stands for u64; all the tokens
\* there are (MaxDeposit + MaxVaultPre + MaxProgramFunds) fit in the word, as
\* the supply of a mint fits in u64
U64Max == 7
\* the clock runs from 0 to MaxTime
MaxTime == 2
\* what the depositor owns; deposits of 0 .. MaxDeposit + 1 are tried
MaxDeposit == 2
\* what the supplied vault may hold before create_vesting
MaxVaultPre == 1
\* what the relayed program owns of its own
MaxProgramFunds == 1
\* the registry specification has NumEntries entries to add, the default one
\* among them
NumEntries == 11
\* the calculator specification draws schedules that start at 0 .. MaxStart,
\* last 1 .. MaxSpan and deposit 1 .. MaxBalance
MaxStart == 1
MaxSpan == 3
MaxBalance == 3

U64Mod == U64Max + 1

\* Pubkey::default(), the key of WhitelistEntry::default()
DefaultKey == 0

WHITELIST_SIZE == 10

\* signers: the callers of the registry and its authorities
Keys == {1, 2}
\* the beneficiary named in create_vesting
Beneficiaries == {2}
\* programs named in relays and registry entries of the custody specification
Programs == {DefaultKey, 1}
\* registry entries of the registry specification
Entries == 0 .. NumEntries - 1
Nonces == {255}
\* the key of the token account supplied as CreateVesting.vault
VaultKey == 3

VARIABLES
    authority,              \* Lockup.authority
    whitelist,              \* Lockup.whitelist, a Vec read only through len,
                            \* contains, push and retain: kept as a bag
    now,                    \* clock.unix_timestamp
    overflow_checks,        \* the build: TRUE panics on integer overflow,
                            \* FALSE wraps
    vesting,                \* the Vesting account
    vault_amount,           \* vault.amount
    depositor_amount,       \* amount of the depositor's token account
    token_amount,           \* amount received by Withdraw.token
    program_vault_amount,   \* whitelisted_program_vault's amount
    last,                   \* the last instruction: arguments, what it saw, result
    hist                    \* history of the calls: in the registry
                            \* specification the adds since Lockup::new, in
                            \* the round-trip specification the open pair

vars == <<authority, whitelist, now, overflow_checks, vesting, vault_amount,
          depositor_amount, token_amount, program_vault_amount, last, hist>>

registry_vars == <<authority, whitelist>>
token_vars == <<vault_amount, depositor_amount, token_amount, program_vault_amount>>

(***************************************************************************)
(* u64 arithmetic.  `-`, `+` and `+=`, `-=` on u64 panic on overflow in a  *)
(* build with overflow checks and wrap in a build without.                 *)
(***************************************************************************)
Sub64(a, b) == (a - b) % U64Mod
Add64(a, b) == (a + b) % U64Mod
SubOverflows(a, b) == b > a
AddOverflows(a, b) == a + b > U64Max

Min(a, b) == IF a < b THEN a ELSE b
Max(a, b) == IF a > b THEN a ELSE b

(***************************************************************************)
(* calculator::available_for_withdrawal (mod calculator).                  *)
(***************************************************************************)
period_duration(v) == (v.end_ts - v.start_ts) \div v.period_count

elapsed_periods(v, current_ts) ==
    Max(0, Min(v.period_count, (current_ts - v.start_ts) \div period_duration(v)))

\* mutant: vesting is linear in time, not by periods
total_vested_linear(v, current_ts) ==
    IF current_ts >= v.end_ts
    THEN v.start_balance
    ELSE (v.start_balance * Max(0, current_ts - v.start_ts))
            \div (v.end_ts - v.start_ts)

total_vested(v, current_ts) ==
    IF current_ts >= v.end_ts
    THEN v.start_balance
    ELSE (v.start_balance * elapsed_periods(v, current_ts)) \div v.period_count

withdrawn_amount(v) == v.start_balance - v.outstanding

\* mutant: what was withdrawn is not taken off
available_for_withdrawal_total(v, current_ts) == total_vested(v, current_ts)

available_for_withdrawal(v, current_ts) ==
    Max(0, total_vested(v, current_ts) - withdrawn_amount(v))

(***************************************************************************)
(* token::transfer: fails when the source holds less than the amount.      *)
(***************************************************************************)
transfer_ok(from_amount, amount) == amount <= from_amount

(***************************************************************************)
(* The accounts and the record of the last instruction.                    *)
(***************************************************************************)
NoVesting ==
    [initialized |-> FALSE, beneficiary |-> DefaultKey, vault |-> DefaultKey,
     outstanding |-> 0, start_balance |-> 0, start_ts |-> 0, end_ts |-> 0,
     period_count |-> 0, whitelist_owned |-> 0, nonce |-> 0]

NoOp ==
    [op |-> "none", result |-> "Ok", caller |-> DefaultKey, key |-> DefaultKey,
     entry |-> DefaultKey, amount |-> 0, end_ts |-> 0, period_count |-> 0,
     invoked |-> FALSE, before |-> 0, after |-> 0]

\* no instruction's result is waiting for its caller
Idle == last.op = "none"

\* Lockup::new: WHITELIST_SIZE copies of the default entry
new_whitelist == [e \in {DefaultKey} |-> WHITELIST_SIZE]

whitelist_len(w) == BagCardinality(w)
whitelist_contains(w, e) == BagIn(e, w)
whitelist_push(w, e) == w (+) SetToBag({e})
whitelist_retain(w, e) == [x \in (DOMAIN w) \ {e} |-> w[x]]

Init ==
    /\ authority = 1
    /\ whitelist = new_whitelist
    /\ now = 0
    /\ overflow_checks \in BOOLEAN
    /\ vesting = NoVesting
    /\ vault_amount \in {0, MaxVaultPre}
    /\ depositor_amount = MaxDeposit
    /\ token_amount = 0
    /\ program_vault_amount = MaxProgramFunds
    /\ last = NoOp
    /\ hist = [pure |-> TRUE, adds |-> {}]

(***************************************************************************)
(* The registry: whitelist_add, whitelist_delete, set_authority.           *)
(***************************************************************************)
\* mutant: any signer passes
whitelist_auth_any(caller) == caller = caller

whitelist_auth(caller) == authority = caller

whitelist_add_result(caller, entry) ==
    IF ~whitelist_auth(caller) THEN "Unauthorized"
    ELSE IF whitelist_len(whitelist) = WHITELIST_SIZE THEN "WhitelistFull"
    ELSE IF whitelist_contains(whitelist, entry) THEN "WhitelistEntryAlreadyExists"
    ELSE "Ok"

whitelist_add(caller, entry) ==
    LET r == whitelist_add_result(caller, entry) IN
    /\ Idle
    /\ last' = [NoOp EXCEPT !.op = "whitelist_add", !.result = r,
                            !.caller = caller, !.entry = entry]
    /\ whitelist' = IF r = "Ok" THEN whitelist_push(whitelist, entry) ELSE whitelist
    /\ UNCHANGED <<authority, now, overflow_checks, vesting, token_vars>>

whitelist_delete_result(caller, entry) ==
    IF ~whitelist_auth(caller) THEN "Unauthorized"
    ELSE IF ~whitelist_contains(whitelist, entry) THEN "WhitelistEntryNotFound"
    ELSE "Ok"

whitelist_delete(caller, entry) ==
    LET r == whitelist_delete_result(caller, entry) IN
    /\ Idle
    /\ last' = [NoOp EXCEPT !.op = "whitelist_delete", !.result = r,
                            !.caller = caller, !.entry = entry]
    /\ whitelist' = IF r = "Ok" THEN whitelist_retain(whitelist, entry) ELSE whitelist
    /\ UNCHANGED <<authority, now, overflow_checks, vesting, token_vars>>

set_authority(caller, new_authority) ==
    LET r == IF ~whitelist_auth(caller) THEN "Unauthorized" ELSE "Ok" IN
    /\ Idle
    /\ last' = [NoOp EXCEPT !.op = "set_authority", !.result = r,
                            !.caller = caller, !.key = new_authority]
    /\ authority' = IF r = "Ok" THEN new_authority ELSE authority
    /\ UNCHANGED <<whitelist, now, overflow_checks, vesting, token_vars>>

(***************************************************************************)
(* The clock.                                                              *)
(***************************************************************************)
Tick ==
    /\ Idle
    /\ now < MaxTime
    /\ now' = now + 1
    /\ UNCHANGED <<registry_vars, overflow_checks, vesting, token_vars, last>>

(***************************************************************************)
(* The caller takes the result of the instruction.                         *)
(***************************************************************************)
Return ==
    /\ ~Idle
    /\ last' = NoOp
    /\ UNCHANGED <<registry_vars, now, overflow_checks, vesting, token_vars, hist>>

(***************************************************************************)
(* create_vesting.  `accounts` is the outcome of CreateVesting::accounts,  *)
(* which rests on the runtime's address derivation.                        *)
(***************************************************************************)
CreateVesting_accounts(derived) ==
    IF derived = "invalid" THEN "InvalidProgramAddress"
    ELSE IF derived = "other_owner" THEN "InvalidVaultOwner"
    ELSE "Ok"

\* mutant: a deposit of nothing is accepted
create_vesting_checks_zero_deposit(end_ts, period_count, deposit_amount) ==
    IF end_ts <= now THEN "InvalidTimestamp"
    ELSE IF period_count > end_ts - now THEN "InvalidPeriod"
    ELSE IF period_count = 0 THEN "InvalidPeriod"
    ELSE "Ok"

create_vesting_checks(end_ts, period_count, deposit_amount) ==
    IF end_ts <= now THEN "InvalidTimestamp"
    ELSE IF period_count > end_ts - now THEN "InvalidPeriod"
    ELSE IF period_count = 0 THEN "InvalidPeriod"
    ELSE IF deposit_amount = 0 THEN "InvalidDepositAmount"
    ELSE "Ok"

create_vesting_result(derived, end_ts, period_count, deposit_amount) ==
    IF CreateVesting_accounts(derived) # "Ok" THEN CreateVesting_accounts(derived)
    ELSE IF create_vesting_checks(end_ts, period_count, deposit_amount) # "Ok"
         THEN create_vesting_checks(end_ts, period_count, deposit_amount)
    ELSE IF ~transfer_ok(depositor_amount, deposit_amount) THEN "TransferError"
    ELSE "Ok"

new_vesting(beneficiary, end_ts, period_count, deposit_amount, nonce) ==
    [initialized |-> TRUE, beneficiary |-> beneficiary, vault |-> VaultKey,
     outstanding |-> deposit_amount, start_balance |-> deposit_amount,
     start_ts |-> now, end_ts |-> end_ts, period_count |-> period_count,
     whitelist_owned |-> 0, nonce |-> nonce]

create_vesting(derived, beneficiary, end_ts, period_count, deposit_amount, nonce) ==
    LET r == create_vesting_result(derived, end_ts, period_count, deposit_amount) IN
    /\ Idle
    /\ ~vesting.initialized
    /\ last' = [NoOp EXCEPT !.op = "create_vesting", !.result = r,
                            !.key = beneficiary, !.end_ts = end_ts,
                            !.period_count = period_count, !.amount = deposit_amount]
    /\ IF r = "Ok"
       THEN /\ vesting' = new_vesting(beneficiary, end_ts, period_count,
                                      deposit_amount, nonce)
            /\ depositor_amount' = depositor_amount - deposit_amount
            /\ vault_amount' = vault_amount + deposit_amount
       ELSE UNCHANGED <<vesting, depositor_amount, vault_amount>>
    /\ UNCHANGED <<registry_vars, now, overflow_checks, token_amount,
                   program_vault_amount>>

(***************************************************************************)
(* withdraw.                                                               *)
(***************************************************************************)
\* mutant: the amount is checked against outstanding, not against what has vested
withdraw_result_unvested(amount, available, vault, outstanding) ==
    IF amount > outstanding THEN "InsufficientWithdrawalBalance"
    ELSE IF ~transfer_ok(vault, amount) THEN "TransferError"
    ELSE "Ok"

\* mutant: the transfer is tried before the vesting check
withdraw_result_transfer_first(amount, available, vault, outstanding) ==
    IF ~transfer_ok(vault, amount) THEN "TransferError"
    ELSE IF amount > available THEN "InsufficientWithdrawalBalance"
    ELSE IF overflow_checks /\ SubOverflows(outstanding, amount) THEN "Panic"
    ELSE "Ok"

\* mutant: the amount is not checked against what is available
withdraw_result_unchecked(amount, available, vault, outstanding) ==
    IF ~transfer_ok(vault, amount) THEN "TransferError"
    ELSE IF overflow_checks /\ SubOverflows(outstanding, amount) THEN "Panic"
    ELSE "Ok"

withdraw_result(amount, available, vault, outstanding) ==
    IF amount > available THEN "InsufficientWithdrawalBalance"
    ELSE IF ~transfer_ok(vault, amount) THEN "TransferError"
    ELSE IF overflow_checks /\ SubOverflows(outstanding, amount) THEN "Panic"
    ELSE "Ok"

\* mutant: the bookkeeping is left out
withdraw_bookkeeping_skipped(v, amount) == v

withdraw_bookkeeping(v, amount) ==
    [v EXCEPT !.outstanding = Sub64(v.outstanding, amount)]

withdraw(amount) ==
    LET r == withdraw_result(amount, available_for_withdrawal(vesting, now),
                             vault_amount, vesting.outstanding) IN
    /\ Idle
    /\ vesting.initialized
    /\ last' = [NoOp EXCEPT !.op = "withdraw", !.result = r, !.amount = amount]
    /\ IF r = "Ok"
       THEN /\ vault_amount' = vault_amount - amount
            /\ token_amount' = token_amount + amount
            /\ vesting' = withdraw_bookkeeping(vesting, amount)
       ELSE UNCHANGED <<vault_amount, token_amount, vesting>>
    /\ UNCHANGED <<registry_vars, now, overflow_checks, depositor_amount,
                   program_vault_amount>>

(***************************************************************************)
(* The relay.  The relayed program is not trusted: with the vault's signer *)
(* it moves `moved` out of the vault (into it when negative), or fails.    *)
(***************************************************************************)
\* mutant: any program but the default one passes
is_whitelisted_nondefault(program) ==
    whitelist_contains(whitelist, program) \/ program # DefaultKey

is_whitelisted(program) == whitelist_contains(whitelist, program)

RelayMoves == (0 - program_vault_amount) .. vault_amount

(***************************************************************************)
(* whitelist_withdraw.                                                     *)
(***************************************************************************)
whitelist_withdraw_result(program, relay_ok, before_amount, after_amount, amount, owned) ==
    IF ~is_whitelisted(program) THEN "WhitelistEntryNotFound"
    ELSE IF ~relay_ok THEN "RelayError"
    ELSE IF overflow_checks /\ SubOverflows(before_amount, after_amount) THEN "Panic"
    ELSE IF Sub64(before_amount, after_amount) > amount THEN "WhitelistWithdrawLimit"
    ELSE IF overflow_checks /\ AddOverflows(owned, Sub64(before_amount, after_amount))
         THEN "Panic"
    ELSE "Ok"

whitelist_withdraw_bookkeeping(v, before_amount, after_amount) ==
    [v EXCEPT !.whitelist_owned = Add64(v.whitelist_owned,
                                        Sub64(before_amount, after_amount))]

whitelist_withdraw(program, relay_ok, moved, amount) ==
    LET before_amount == vault_amount
        after_amount == vault_amount - moved
        r == whitelist_withdraw_result(program, relay_ok, before_amount, after_amount,
                                       amount, vesting.whitelist_owned)
        invoked == r # "WhitelistEntryNotFound"
    IN
    /\ Idle
    /\ vesting.initialized
    /\ last' = [NoOp EXCEPT !.op = "whitelist_withdraw", !.result = r,
                            !.entry = program, !.amount = amount,
                            !.invoked = invoked,
                            !.before = IF invoked /\ relay_ok THEN before_amount ELSE 0,
                            !.after = IF invoked /\ relay_ok THEN after_amount ELSE 0]
    /\ IF r = "Ok"
       THEN /\ vault_amount' = after_amount
            /\ program_vault_amount' = program_vault_amount + moved
            /\ vesting' = whitelist_withdraw_bookkeeping(vesting, before_amount,
                                                         after_amount)
       ELSE UNCHANGED <<vault_amount, program_vault_amount, vesting>>
    /\ UNCHANGED <<registry_vars, now, overflow_checks, depositor_amount, token_amount>>

(***************************************************************************)
(* whitelist_deposit.                                                      *)
(***************************************************************************)
\* mutant: the deposit is not checked against whitelist_owned
whitelist_deposit_result_unchecked(program, relay_ok, before_amount, after_amount, owned) ==
    IF ~is_whitelisted(program) THEN "WhitelistEntryNotFound"
    ELSE IF ~relay_ok THEN "RelayError"
    ELSE IF overflow_checks /\ SubOverflows(after_amount, before_amount) THEN "Panic"
    ELSE IF Sub64(after_amount, before_amount) <= 0
         THEN "InsufficientWhitelistDepositAmount"
    ELSE IF overflow_checks /\ SubOverflows(owned, Sub64(after_amount, before_amount))
         THEN "Panic"
    ELSE "Ok"

\* mutant: the program is not looked up in the whitelist
whitelist_deposit_result_unlisted(program, relay_ok, before_amount, after_amount, owned) ==
    IF ~relay_ok THEN "RelayError"
    ELSE IF overflow_checks /\ SubOverflows(after_amount, before_amount) THEN "Panic"
    ELSE IF Sub64(after_amount, before_amount) <= 0
         THEN "InsufficientWhitelistDepositAmount"
    ELSE IF Sub64(after_amount, before_amount) > owned THEN "WhitelistDepositOverflow"
    ELSE "Ok"

whitelist_deposit_result(program, relay_ok, before_amount, after_amount, owned) ==
    IF ~is_whitelisted(program) THEN "WhitelistEntryNotFound"
    ELSE IF ~relay_ok THEN "RelayError"
    ELSE IF overflow_checks /\ SubOverflows(after_amount, before_amount) THEN "Panic"
    ELSE IF Sub64(after_amount, before_amount) <= 0
         THEN "InsufficientWhitelistDepositAmount"
    ELSE IF Sub64(after_amount, before_amount) > owned THEN "WhitelistDepositOverflow"
    ELSE "Ok"

\* mutant: the bookkeeping is left out
whitelist_deposit_bookkeeping_skipped(v, before_amount, after_amount) == v

whitelist_deposit_bookkeeping(v, before_amount, after_amount) ==
    [v EXCEPT !.whitelist_owned = Sub64(v.whitelist_owned,
                                        Sub64(after_amount, before_amount))]

whitelist_deposit(program, relay_ok, moved) ==
    LET before_amount == vault_amount
        after_amount == vault_amount - moved
        r == whitelist_deposit_result(program, relay_ok, before_amount, after_amount,
                                      vesting.whitelist_owned)
        invoked == r # "WhitelistEntryNotFound"
    IN
    /\ Idle
    /\ vesting.initialized
    /\ last' = [NoOp EXCEPT !.op = "whitelist_deposit", !.result = r,
                            !.entry = program,
                            !.invoked = invoked,
                            !.before = IF invoked /\ relay_ok THEN before_amount ELSE 0,
                            !.after = IF invoked /\ relay_ok THEN after_amount ELSE 0]
    /\ IF r = "Ok"
       THEN /\ vault_amount' = after_amount
            /\ program_vault_amount' = program_vault_amount + moved
            /\ vesting' = whitelist_deposit_bookkeeping(vesting, before_amount,
                                                        after_amount)
       ELSE UNCHANGED <<vault_amount, program_vault_amount, vesting>>
    /\ UNCHANGED <<registry_vars, now, overflow_checks, depositor_amount, token_amount>>

(***************************************************************************)
(* The custody specification: one Vesting account, the relays, the clock,  *)
(* and the registry over the programs named in relays.                     *)
(***************************************************************************)
Limits == {1, U64Max}

CreateVesting ==
    /\ \/ \E b \in Beneficiaries, e \in 0 .. MaxTime, p \in 0 .. MaxTime + 1,
             a \in 0 .. MaxDeposit + 1, n \in Nonces :
               create_vesting("match", b, e, p, a, n)
       \/ \E d \in {"other_owner", "invalid"}, b \in Beneficiaries, n \in Nonces :
               create_vesting(d, b, MaxTime, 1, 1, n)
    /\ UNCHANGED hist

Withdraw ==
    /\ \E a \in 0 .. MaxDeposit + 1 : withdraw(a)
    /\ UNCHANGED hist

WhitelistWithdraw ==
    /\ \/ \E p \in Programs, m \in RelayMoves, a \in Limits :
               whitelist_withdraw(p, TRUE, m, a)
       \/ \E p \in Programs : whitelist_withdraw(p, FALSE, 0, 1)
    /\ UNCHANGED hist

WhitelistDeposit ==
    /\ \/ \E p \in Programs, m \in RelayMoves : whitelist_deposit(p, TRUE, m)
       \/ \E p \in Programs : whitelist_deposit(p, FALSE, 0)
    /\ UNCHANGED hist

WhitelistAdd ==
    /\ \E e \in Programs \ {DefaultKey} : whitelist_add(authority, e)
    /\ UNCHANGED hist

WhitelistDelete ==
    /\ \E e \in Programs : whitelist_delete(authority, e)
    /\ UNCHANGED hist

Clock ==
    /\ Tick
    /\ UNCHANGED hist

Next ==
    \/ CreateVesting
    \/ Withdraw
    \/ WhitelistWithdraw
    \/ WhitelistDeposit
    \/ WhitelistAdd
    \/ WhitelistDelete
    \/ Clock
    \/ Return

Spec == Init /\ [][Next]_vars

(***************************************************************************)
(* The registry specification: the three registry instructions, called by  *)
(* any key with any entry (a caller that is not the authority names a      *)
(* program of the custody specification).  `hist` follows the calls since  *)
(* Lockup::new for as long as they are whitelist_add calls by the          *)
(* authority with pairwise distinct entries: `adds` is the set of their    *)
(* entries.                                                                *)
(***************************************************************************)
InitRegistry ==
    /\ authority \in Keys
    /\ whitelist = new_whitelist
    /\ now = 0
    /\ overflow_checks = FALSE
    /\ vesting = NoVesting
    /\ vault_amount = 0
    /\ depositor_amount = MaxDeposit
    /\ token_amount = 0
    /\ program_vault_amount = MaxProgramFunds
    /\ last = NoOp
    /\ hist = [pure |-> TRUE, adds |-> {}]

NotPure == [pure |-> FALSE, adds |-> {}]

CallerEntries(caller) == IF caller = authority THEN Entries ELSE Programs

RegistryAdd ==
    \E c \in Keys : \E e \in CallerEntries(c) :
        /\ whitelist_add(c, e)
        /\ hist' = IF hist.pure /\ c = authority /\ e \notin hist.adds
                   THEN [pure |-> TRUE, adds |-> hist.adds \cup {e}]
                   ELSE NotPure

RegistryDelete ==
    \E c \in Keys : \E e \in CallerEntries(c) :
        /\ whitelist_delete(c, e)
        /\ hist' = NotPure

RegistrySetAuthority ==
    \E c \in Keys, k \in Keys :
        /\ set_authority(c, k)
        /\ hist' = NotPure

NextRegistry ==
    \/ RegistryAdd
    \/ RegistryDelete
    \/ RegistrySetAuthority
    \/ Return

SpecRegistry == InitRegistry /\ [][NextRegistry]_vars

(***************************************************************************)
(* The calculator specification: a Vesting account drawn from the accounts *)
(* create_vesting can make (with any outstanding up to start_balance), the *)
(* clock, and the instruction available_for_withdrawal, which reports what *)
(* the calculator returns.  `hist` keeps the first report.                 *)
(***************************************************************************)
\* the schedule start_ts=0, end_ts=100, period_count=4, start_balance=1000,
\* nothing withdrawn
ScenarioA ==
    [NoVesting EXCEPT !.initialized = TRUE, !.beneficiary = 2, !.vault = VaultKey,
                      !.nonce = 255, !.start_ts = 0, !.end_ts = 100,
                      !.period_count = 4, !.start_balance = 1000,
                      !.outstanding = 1000]

Schedules ==
    {ScenarioA} \cup
    {[NoVesting EXCEPT !.initialized = TRUE, !.beneficiary = 2, !.vault = VaultKey,
                       !.nonce = 255, !.start_ts = s, !.end_ts = s + d,
                       !.period_count = p, !.start_balance = b,
                       !.outstanding = o] :
        <<s, d, p, b, o>> \in
            {x \in (0 .. MaxStart) \X (1 .. MaxSpan) \X (1 .. MaxSpan)
                      \X (1 .. MaxBalance) \X (0 .. MaxBalance) :
                x[3] <= x[2] /\ x[5] <= x[4]}}

NoQuote == [quoted |-> FALSE, ts |-> 0, amount |-> 0]

InitCalculator ==
    /\ authority = 1
    /\ whitelist = new_whitelist
    /\ now = 0
    /\ overflow_checks = FALSE
    /\ vesting \in Schedules
    /\ vault_amount = 0
    /\ depositor_amount = 0
    /\ token_amount = 0
    /\ program_vault_amount = 0
    /\ last = NoOp
    /\ hist = NoQuote

\* the instruction available_for_withdrawal: logs the calculator's result
AvailableForWithdrawal ==
    /\ Idle
    /\ vesting.initialized
    /\ last' = [NoOp EXCEPT !.op = "available_for_withdrawal",
                            !.amount = available_for_withdrawal(vesting, now)]
    /\ UNCHANGED <<registry_vars, now, overflow_checks, vesting, token_vars>>

CalculatorQuote ==
    /\ AvailableForWithdrawal
    /\ hist' = IF hist.quoted THEN hist
               ELSE [quoted |-> TRUE, ts |-> now, amount |-> last'.amount]

CalculatorClock ==
    /\ Idle
    /\ now <= vesting.end_ts
    /\ now' = now + 1
    /\ UNCHANGED <<registry_vars, overflow_checks, vesting, token_vars, last, hist>>

NextCalculator ==
    \/ CalculatorQuote
    \/ CalculatorClock
    \/ Return

SpecCalculator == InitCalculator /\ [][NextCalculator]_vars

(***************************************************************************)
(* The authority specification: the three registry instructions, called by *)
(* any key, over the programs of the custody specification.  `hist` keeps  *)
(* the last successful set_authority: the authority it replaced and the    *)
(* one it installed.                                                       *)
(***************************************************************************)
NoChange == [changed |-> FALSE, previous |-> DefaultKey, new |-> DefaultKey]

InitAuthority ==
    /\ authority \in Keys
    /\ whitelist = new_whitelist
    /\ now = 0
    /\ overflow_checks = FALSE
    /\ vesting = NoVesting
    /\ vault_amount = 0
    /\ depositor_amount = MaxDeposit
    /\ token_amount = 0
    /\ program_vault_amount = MaxProgramFunds
    /\ last = NoOp
    /\ hist = NoChange

AuthorityAdd ==
    /\ \E c \in Keys, e \in Programs : whitelist_add(c, e)
    /\ UNCHANGED hist

AuthorityDelete ==
    /\ \E c \in Keys, e \in Programs : whitelist_delete(c, e)
    /\ UNCHANGED hist

AuthoritySet ==
    /\ \E c \in Keys, k \in Keys : set_authority(c, k)
    /\ hist' = IF last'.result = "Ok"
               THEN [changed |-> TRUE, previous |-> authority, new |-> last'.key]
               ELSE hist

NextAuthority ==
    \/ AuthorityAdd
    \/ AuthorityDelete
    \/ AuthoritySet
    \/ Return

SpecAuthority == InitAuthority /\ [][NextAuthority]_vars

(***************************************************************************)
(* The round-trip specification: the custody instructions, with `hist`     *)
(* following a pair of relays.  A successful whitelist_withdraw in which   *)
(* the program takes m > 0 out of the vault opens a pair and keeps the     *)
(* whitelist_owned, outstanding and vault amount it started from; the      *)
(* next instruction closes the pair when it is a successful                *)
(* whitelist_deposit in which the program returns m, and drops it          *)
(* otherwise.                                                              *)
(***************************************************************************)
NoPair ==
    [open |-> FALSE, closed |-> FALSE, moved |-> 0, whitelist_owned |-> 0,
     outstanding |-> 0, vault_amount |-> 0]

InitRoundTrip ==
    /\ authority = 1
    /\ whitelist = new_whitelist
    /\ now = 0
    /\ overflow_checks \in BOOLEAN
    /\ vesting = NoVesting
    /\ vault_amount \in {0, MaxVaultPre}
    /\ depositor_amount = MaxDeposit
    /\ token_amount = 0
    /\ program_vault_amount = MaxProgramFunds
    /\ last = NoOp
    /\ hist = NoPair

PairCreateVesting ==
    /\ \/ \E b \in Beneficiaries, e \in 0 .. MaxTime, p \in 0 .. MaxTime + 1,
             a \in 0 .. MaxDeposit + 1, n \in Nonces :
               create_vesting("match", b, e, p, a, n)
       \/ \E d \in {"other_owner", "invalid"}, b \in Beneficiaries, n \in Nonces :
               create_vesting(d, b, MaxTime, 1, 1, n)
    /\ hist' = NoPair

PairWithdraw ==
    /\ \E a \in 0 .. MaxDeposit + 1 : withdraw(a)
    /\ hist' = NoPair

PairWhitelistWithdraw ==
    /\ \/ \E p \in Programs, m \in RelayMoves, a \in Limits :
               whitelist_withdraw(p, TRUE, m, a)
       \/ \E p \in Programs : whitelist_withdraw(p, FALSE, 0, 1)
    /\ hist' = IF last'.result = "Ok" /\ vault_amount - vault_amount' > 0
               THEN [open |-> TRUE, closed |-> FALSE,
                     moved |-> vault_amount - vault_amount',
                     whitelist_owned |-> vesting.whitelist_owned,
                     outstanding |-> vesting.outstanding,
                     vault_amount |-> vault_amount]
               ELSE NoPair

PairWhitelistDeposit ==
    /\ \/ \E p \in Programs, m \in RelayMoves : whitelist_deposit(p, TRUE, m)
       \/ \E p \in Programs : whitelist_deposit(p, FALSE, 0)
    /\ hist' = IF /\ hist.open
                  /\ last'.result = "Ok"
                  /\ vault_amount' - vault_amount = hist.moved
               THEN [hist EXCEPT !.open = FALSE, !.closed = TRUE]
               ELSE NoPair

PairWhitelistAdd ==
    /\ \E e \in Programs \ {DefaultKey} : whitelist_add(authority, e)
    /\ hist' = NoPair

PairWhitelistDelete ==
    /\ \E e \in Programs : whitelist_delete(authority, e)
    /\ hist' = NoPair

NextRoundTrip ==
    \/ PairCreateVesting
    \/ PairWithdraw
    \/ PairWhitelistWithdraw
    \/ PairWhitelistDeposit
    \/ PairWhitelistAdd
    \/ PairWhitelistDelete
    \/ Clock
    \/ Return

SpecRoundTrip == InitRoundTrip /\ [][NextRoundTrip]_vars

(***************************************************************************)
(* Properties of the custody specification.                                *)
(***************************************************************************)
Succeeded(op) == last.op = op /\ last.result = "Ok"

\* C1: for the vesting account, in every reachable state,
\* 0 <= whitelist_owned <= outstanding <= start_balance.
C1_BalanceOrder ==
    vesting.initialized =>
        /\ 0 <= vesting.whitelist_owned
        /\ vesting.whitelist_owned <= vesting.outstanding
        /\ vesting.outstanding <= vesting.start_balance

\* C2: between instructions the vault holds outstanding - whitelist_owned,
\* right after create_vesting too, whatever the vault held before.
C2_VaultBalance ==
    vesting.initialized =>
        vault_amount = vesting.outstanding - vesting.whitelist_owned

\* C3: what the beneficiary has received through withdraw is at most what has
\* vested at that time, which is at most start_balance.
C3_NoMoreThanVested ==
    vesting.initialized =>
        /\ token_amount <= total_vested(vesting, now)
        /\ total_vested(vesting, now) <= vesting.start_balance

\* a withdraw before the end of the schedule has paid out all that has vested,
\* which is part of the deposit only, and some of it is with a relayed program
C3_Witness ==
    /\ Succeeded("withdraw")
    /\ last.amount > 0
    /\ now < vesting.end_ts
    /\ token_amount = total_vested(vesting, now)
    /\ token_amount < vesting.start_balance
    /\ vesting.whitelist_owned > 0

\* C4: a withdraw of more than outstanding - whitelist_owned does not succeed,
\* and leaves outstanding, whitelist_owned and the vault as they were.
C4_NoWithdrawOfDelegated ==
    [][(last'.op = "withdraw"
        /\ last'.amount > vesting.outstanding - vesting.whitelist_owned)
       => (/\ last'.result # "Ok"
           /\ vesting' = vesting
           /\ vault_amount' = vault_amount)]_vars

\* C5: start_balance - outstanding is the sum of the amounts of the successful
\* withdraws (token_amount grows by the amount of each and by nothing else);
\* outstanding changes in a successful withdraw only, and never grows.
C5_WithdrawnSum ==
    [][/\ (vesting.initialized /\ vesting'.outstanding # vesting.outstanding)
            => (last'.op = "withdraw" /\ last'.result = "Ok")
       /\ vesting.initialized => vesting'.outstanding <= vesting.outstanding
       /\ token_amount' =
            IF last'.op = "withdraw" /\ last'.result = "Ok"
            THEN token_amount + last'.amount ELSE token_amount
       /\ vesting'.initialized
            => vesting'.start_balance - vesting'.outstanding = token_amount'
      ]_vars

\* a second successful withdraw of a positive amount
C5_Witness ==
    /\ Succeeded("withdraw")
    /\ last.amount > 0
    /\ token_amount > last.amount
    /\ vesting.whitelist_owned = 0

\* C6: a withdraw of more than available_for_withdrawal fails with
\* InsufficientWithdrawalBalance, moves no tokens and changes no field.
C6_OverEligibleFails ==
    [][(last'.op = "withdraw"
        /\ last'.amount > available_for_withdrawal(vesting, now))
       => (/\ last'.result = "InsufficientWithdrawalBalance"
           /\ vesting' = vesting
           /\ token_vars' = token_vars)]_vars

\* the refused amount is in the vault and within outstanding, and a part of
\* the deposit has vested
C6_Witness ==
    /\ last.op = "withdraw"
    /\ last.result = "InsufficientWithdrawalBalance"
    /\ last.amount <= vault_amount
    /\ last.amount <= vesting.outstanding
    /\ available_for_withdrawal(vesting, now) > 0

\* C7: a whitelist_withdraw naming a program that is not in the whitelist
\* fails with WhitelistEntryNotFound before the program is invoked, and leaves
\* the registry, the vesting account and the token balances as they were.
C7_NotWhitelistedFails ==
    [][(last'.op = "whitelist_withdraw" /\ ~BagIn(last'.entry, whitelist))
       => (/\ last'.result = "WhitelistEntryNotFound"
           /\ ~last'.invoked
           /\ registry_vars' = registry_vars
           /\ vesting' = vesting
           /\ token_vars' = token_vars)]_vars

\* the program refused was taken off the whitelist while it held funds
C7_Witness ==
    /\ last.op = "whitelist_withdraw"
    /\ last.result = "WhitelistEntryNotFound"
    /\ vault_amount > 0
    /\ vesting.whitelist_owned > 0
    /\ whitelist # new_whitelist

\* C9: a successful whitelist_withdraw with limit `amount` raises
\* whitelist_owned by before - after, which is at most the limit; when
\* before - after exceeds the limit it fails with WhitelistWithdrawLimit and
\* whitelist_owned and the vault are as before.
C9_WithdrawBookkeeping ==
    [][(last'.op = "whitelist_withdraw" /\ last'.invoked)
       => (/\ last'.result = "Ok"
                => (/\ vesting'.whitelist_owned - vesting.whitelist_owned
                         = last'.before - last'.after
                    /\ last'.before = vault_amount
                    /\ last'.after = vault_amount'
                    /\ last'.before - last'.after <= last'.amount)
           /\ last'.before - last'.after > last'.amount
                => (/\ last'.result = "WhitelistWithdrawLimit"
                    /\ vesting' = vesting
                    /\ vault_amount' = vault_amount))]_vars

\* C10: a whitelist_deposit in which the vault rises by more than
\* whitelist_owned fails with WhitelistDepositOverflow and leaves
\* whitelist_owned as it was; a successful one never takes whitelist_owned
\* below 0 (the unsigned subtraction does not wrap).
C10_DepositOverflowFails ==
    [][(last'.op = "whitelist_deposit" /\ last'.invoked)
       => (/\ last'.after - last'.before > vesting.whitelist_owned
                => (/\ last'.result = "WhitelistDepositOverflow"
                    /\ vesting' = vesting)
           /\ last'.result = "Ok"
                => (/\ vesting'.whitelist_owned >= 0
                    /\ vesting'.whitelist_owned < vesting.whitelist_owned))]_vars

\* the program returned more than it had been given, and it had been given some
C10_Witness ==
    /\ last.op = "whitelist_deposit"
    /\ last.result = "WhitelistDepositOverflow"
    /\ last.after - last.before > vesting.whitelist_owned
    /\ vesting.whitelist_owned > 0

\* C11: a whitelist_deposit whose relay returned with the vault not higher
\* than before (after - before <= 0, the program may have taken funds out)
\* fails with InsufficientWhitelistDepositAmount and leaves whitelist_owned
\* as it was.
C11_NoIncreaseFails ==
    [][(/\ last'.op = "whitelist_deposit"
        /\ last'.invoked
        /\ last'.result # "RelayError"
        /\ last'.after - last'.before <= 0)
       => (/\ last'.result = "InsufficientWhitelistDepositAmount"
           /\ vesting'.whitelist_owned = vesting.whitelist_owned)]_vars

\* C18: a whitelist_withdraw whose relay leaves the vault higher than it was
\* (after > before) does not succeed and leaves whitelist_owned as it was,
\* whatever the limit, u64::MAX included.
C18_RaisedVaultFails ==
    [][(/\ last'.op = "whitelist_withdraw"
        /\ last'.invoked
        /\ last'.after > last'.before)
       => (/\ last'.result # "Ok"
           /\ vesting'.whitelist_owned = vesting.whitelist_owned)]_vars

\* C19: for every reachable Vesting account and every time,
\* available_for_withdrawal is at most outstanding, so outstanding -= amount
\* in a withdraw that passed the check never underflows: no withdraw panics
\* and a successful one leaves outstanding - amount, not a wrapped value.
C19_NoUnderflow ==
    [][/\ vesting.initialized
            => \A t \in 0 .. MaxTime + 1 :
                    available_for_withdrawal(vesting, t) <= vesting.outstanding
       /\ vesting'.initialized
            => \A t \in 0 .. MaxTime + 1 :
                    available_for_withdrawal(vesting', t) <= vesting'.outstanding
       /\ last'.op = "withdraw"
            => (/\ last'.result # "Panic"
                /\ last'.result = "Ok"
                     => (/\ last'.amount <= vesting.outstanding
                         /\ vesting'.outstanding
                              = vesting.outstanding - last'.amount))
      ]_vars

\* a withdraw at or after end_ts took all that was outstanding, after an
\* earlier withdraw
C19_Witness ==
    /\ Succeeded("withdraw")
    /\ last.amount > 0
    /\ last.amount < vesting.start_balance
    /\ vesting.outstanding = 0
    /\ now >= vesting.end_ts

\* C20: the whitelist is looked up when whitelist_deposit is called: a
\* whitelist_deposit naming a program that is not in the whitelist then (it
\* may have been deleted after funds went to it) fails with
\* WhitelistEntryNotFound before the program is invoked and leaves
\* whitelist_owned, the account and the token balances as they were; a
\* whitelist_deposit that succeeds names a program in the whitelist.
C20_DeletedProgramRefused ==
    [][/\ (last'.op = "whitelist_deposit" /\ ~BagIn(last'.entry, whitelist))
            => (/\ last'.result = "WhitelistEntryNotFound"
                /\ ~last'.invoked
                /\ vesting' = vesting
                /\ token_vars' = token_vars)
       /\ (last'.op = "whitelist_deposit" /\ last'.result = "Ok")
            => (/\ BagIn(last'.entry, whitelist)
                /\ vesting'.whitelist_owned < vesting.whitelist_owned)
      ]_vars

\* the default program, whitelisted by Lockup::new and deleted since, is
\* refused while funds are out and another program is in the whitelist
C20_Witness ==
    /\ last.op = "whitelist_deposit"
    /\ last.result = "WhitelistEntryNotFound"
    /\ last.entry = DefaultKey
    /\ ~BagIn(DefaultKey, whitelist)
    /\ BagIn(1, whitelist)
    /\ 0 < vesting.whitelist_owned
    /\ vesting.whitelist_owned <= vesting.outstanding
    /\ program_vault_amount > MaxProgramFunds

AccountErrors == {"InvalidProgramAddress", "InvalidVaultOwner"}

\* the fields of a Vesting account that are set once
Immutable(v) ==
    <<v.start_ts, v.end_ts, v.period_count, v.start_balance, v.beneficiary,
      v.vault, v.nonce>>

\* C15: create_vesting succeeds only when end_ts > now,
\* 1 <= period_count <= end_ts - now and deposit_amount > 0; when the
\* accounts are accepted it fails otherwise with InvalidTimestamp,
\* InvalidPeriod or InvalidDepositAmount (the first that applies), and a
\* failed create_vesting creates no account and moves no tokens.  The account
\* it creates has start_ts = now, outstanding = start_balance =
\* deposit_amount and whitelist_owned = 0, and no later step changes its
\* start_ts, end_ts, period_count, start_balance, beneficiary, vault or nonce.
C15_CreateVesting ==
    [][/\ (last'.op = "create_vesting" /\ last'.result = "Ok")
            => (/\ last'.end_ts > now
                /\ 1 <= last'.period_count
                /\ last'.period_count <= last'.end_ts - now
                /\ last'.amount > 0
                /\ vesting'.initialized
                /\ vesting'.start_ts = now
                /\ vesting'.end_ts = last'.end_ts
                /\ vesting'.period_count = last'.period_count
                /\ vesting'.beneficiary = last'.key
                /\ vesting'.outstanding = last'.amount
                /\ vesting'.start_balance = last'.amount
                /\ vesting'.whitelist_owned = 0
                /\ vault_amount' = vault_amount + last'.amount
                /\ depositor_amount' = depositor_amount - last'.amount)
       /\ (last'.op = "create_vesting" /\ last'.result \notin AccountErrors)
            => (/\ last'.end_ts <= now => last'.result = "InvalidTimestamp"
                /\ (last'.end_ts > now
                        /\ (last'.period_count < 1
                               \/ last'.period_count > last'.end_ts - now))
                     => last'.result = "InvalidPeriod"
                /\ (last'.end_ts > now /\ 1 <= last'.period_count
                        /\ last'.period_count <= last'.end_ts - now
                        /\ last'.amount = 0)
                     => last'.result = "InvalidDepositAmount")
       /\ (last'.op = "create_vesting" /\ last'.result # "Ok")
            => (vesting' = vesting /\ token_vars' = token_vars)
       /\ vesting.initialized
            => (vesting'.initialized /\ Immutable(vesting') = Immutable(vesting))
      ]_vars

\* an account created after the clock has moved, with as many periods as
\* there are seconds to end_ts, has paid out and has funds with a program
C15_Witness ==
    /\ vesting.initialized
    /\ vesting.start_ts > 0
    /\ vesting.period_count = vesting.end_ts - vesting.start_ts
    /\ vesting.outstanding < vesting.start_balance
    /\ vesting.whitelist_owned > 0
    /\ vesting.vault = VaultKey

(***************************************************************************)
(* Properties of the round-trip specification.                             *)
(***************************************************************************)
\* C12: a successful whitelist_withdraw in which the program takes m, with
\* 0 < m <= the vault's amount, followed at once by a successful
\* whitelist_deposit in which the program returns m, leaves whitelist_owned,
\* outstanding and the vault's amount as they were before the pair.
C12_RoundTrip ==
    hist.closed =>
        /\ vesting.whitelist_owned = hist.whitelist_owned
        /\ vesting.outstanding = hist.outstanding
        /\ vault_amount = hist.vault_amount

\* a pair has been closed on a record that had funds with a program already
\* and has paid out a part to the beneficiary
C12_Witness ==
    /\ hist.closed
    /\ Succeeded("whitelist_deposit")
    /\ hist.moved > 0
    /\ hist.whitelist_owned > 0
    /\ token_amount > 0

(***************************************************************************)
(* Properties of the calculator specification.                             *)
(***************************************************************************)
Quoted == last.op = "available_for_withdrawal"

\* C16: for an account that create_vesting can make and a fixed outstanding,
\* what is available for withdrawal does not go down as the clock advances,
\* and from end_ts on it is start_balance - (start_balance - outstanding),
\* that is outstanding.
C16_Monotone ==
    Quoted =>
        /\ hist.quoted => (hist.ts <= now /\ hist.amount <= last.amount)
        /\ now >= vesting.end_ts
             => (/\ last.amount
                      = vesting.start_balance
                          - (vesting.start_balance - vesting.outstanding)
                 /\ last.amount = vesting.outstanding)

\* after a part was withdrawn, the report at end_ts is higher than the first
\* one, made before end_ts, which was not nothing
C16_Witness ==
    /\ Quoted
    /\ hist.quoted
    /\ hist.ts < vesting.end_ts
    /\ now >= vesting.end_ts
    /\ 0 < hist.amount
    /\ hist.amount < last.amount
    /\ vesting.outstanding < vesting.start_balance

\* C17: vesting is by cliffs at period boundaries.  Before end_ts the vested
\* amount is floor(start_balance * k / period_count), with
\* k = floor((now - start_ts) / ((end_ts - start_ts) / period_count)) clamped
\* to [0, period_count], so two reports within one period are equal; with
\* period_count = end_ts - start_ts and now = end_ts - 1, period_count - 1
\* periods have elapsed; and for start_ts = 0, end_ts = 100, period_count = 4,
\* start_balance = 1000 with nothing withdrawn, 250 is available at now = 25,
\* 750 at now = 99 and 1000 at now = 100.
C17_Cliffs ==
    Quoted =>
        LET v == vesting
            d == (v.end_ts - v.start_ts) \div v.period_count
            k == Max(0, Min(v.period_count, (now - v.start_ts) \div d))
            vested == (v.start_balance * k) \div v.period_count
        IN
        /\ now < v.end_ts
             => last.amount = Max(0, vested - (v.start_balance - v.outstanding))
        /\ (hist.quoted /\ now < v.end_ts /\ v.start_ts <= hist.ts
                /\ (hist.ts - v.start_ts) \div d = (now - v.start_ts) \div d)
             => last.amount = hist.amount
        /\ (v.period_count = v.end_ts - v.start_ts /\ now = v.end_ts - 1)
             => (/\ elapsed_periods(v, now) = v.period_count - 1
                 /\ total_vested(v, now)
                      = (v.start_balance * (v.period_count - 1)) \div v.period_count)
        /\ v = ScenarioA
             => (/\ now = 25 => last.amount = 250
                 /\ now = 99 => last.amount = 750
                 /\ now = 100 => last.amount = 1000
                 /\ hist.quoted /\ hist.ts = 25 => hist.amount = 250)

\* the schedule of the scenario, reported at 25 and again at 99
C17_Witness ==
    /\ Quoted
    /\ vesting = ScenarioA
    /\ hist.quoted
    /\ hist.ts = 25
    /\ hist.amount = 250
    /\ now = 99
    /\ last.amount = 750

(***************************************************************************)
(* Properties of the authority specification.                              *)
(***************************************************************************)
RegistryOps == {"whitelist_add", "whitelist_delete", "set_authority"}

\* C13: whitelist_add, whitelist_delete and set_authority by a caller that
\* is not the stored authority fail with Unauthorized and leave authority
\* and whitelist as they were; a successful set_authority(new) stores new,
\* and from then on the authority it replaced (when another key) is refused
\* with Unauthorized and new is not.
C13_OnlyAuthority ==
    [][(last'.op \in RegistryOps)
       => (/\ last'.caller # authority
                => (/\ last'.result = "Unauthorized"
                    /\ registry_vars' = registry_vars)
           /\ (last'.op = "set_authority" /\ last'.result = "Ok")
                => authority' = last'.key
           /\ (hist.changed /\ hist.previous # hist.new
                    /\ last'.caller = hist.previous)
                => (/\ last'.result = "Unauthorized"
                    /\ registry_vars' = registry_vars)
           /\ (hist.changed /\ last'.caller = hist.new)
                => (/\ last'.result # "Unauthorized"
                    /\ last'.op = "set_authority" => last'.result = "Ok"))]_vars

\* the authority that was replaced is refused the delete of an entry that is
\* in the whitelist
C13_Witness ==
    /\ last.op = "whitelist_delete"
    /\ last.result = "Unauthorized"
    /\ hist.changed
    /\ hist.previous # hist.new
    /\ last.caller = hist.previous
    /\ authority = hist.new
    /\ BagIn(last.entry, whitelist)

(***************************************************************************)
(* Properties of the registry specification.                               *)
(***************************************************************************)
\* C8: from Lockup::new, whitelist_add by the authority of 10 pairwise
\* distinct entries succeeds each time and the 11th fails with WhitelistFull,
\* the registry staying at 10 entries; the registry never holds more than 10.
C8_TenAddsThenFull ==
    /\ BagCardinality(whitelist) <= WHITELIST_SIZE
    /\ (hist.pure /\ last.op = "whitelist_add")
         => IF Cardinality(hist.adds) <= WHITELIST_SIZE
            THEN last.result = "Ok"
            ELSE /\ last.result = "WhitelistFull"
                 /\ BagCardinality(whitelist) = WHITELIST_SIZE

\* the entries of a whitelist are pairwise distinct: none is held twice
Distinct(w) == \A e \in BagToSet(w) : CopiesIn(e, w) = 1

\* C14: in every reachable state of the registry, from Lockup::new on, the
\* entries are pairwise distinct; whitelist_add of an entry that is present
\* fails with WhitelistEntryAlreadyExists (with WhitelistFull when the
\* registry is full) and changes nothing; whitelist_delete of an absent entry
\* fails with WhitelistEntryNotFound; after a successful whitelist_delete of
\* e the whitelist does not contain e and contains every other entry it had.
C14_DistinctEntries ==
    [][/\ Distinct(whitelist)
       /\ Distinct(whitelist')
       /\ (last'.op = "whitelist_add" /\ last'.caller = authority
               /\ BagIn(last'.entry, whitelist))
            => (/\ last'.result = IF BagCardinality(whitelist) = WHITELIST_SIZE
                                  THEN "WhitelistFull"
                                  ELSE "WhitelistEntryAlreadyExists"
                /\ whitelist' = whitelist)
       /\ (last'.op = "whitelist_delete" /\ last'.caller = authority
               /\ ~BagIn(last'.entry, whitelist))
            => (/\ last'.result = "WhitelistEntryNotFound"
                /\ whitelist' = whitelist)
       /\ (last'.op = "whitelist_delete" /\ last'.result = "Ok")
            => (/\ ~BagIn(last'.entry, whitelist')
                /\ \A x \in BagToSet(whitelist) \ {last'.entry} :
                        BagIn(x, whitelist'))
      ]_vars

====
